---- MODULE Spec2Model ----
(***************************************************************************)
(* Model of Spotify-Alter-Ego.py: the track normalisers, the response      *)
(* parser, the prompt builder, the username generator and the request      *)
(* handlers around the process-wide Spotify client.                        *)
(*                                                                         *)
(* Text is modelled as TLA+ strings: Len, \o and SubSeq act on them as     *)
(* they do on sequences of characters.                                     *)
(***************************************************************************)
EXTENDS Integers, Sequences, FiniteSets, TLC

VARIABLES
    stage,              \* position of the component under study
    items,              \* the provider's reply: ['items'] of the Spotify response
    tracks_data,        \* result of get_top_tracks_data
    unique_tracks,      \* result of get_recent_tracks_data
    chunks,             \* the text generator's output, as the pieces it wrote
    response,           \* argument of parse_ollama_response
    description,        \* first field returned by parse_ollama_response
    image_prompt,       \* second field returned by parse_ollama_response
    character_description,  \* argument of generate_funny_username (line 244)
    adj,                \* the adjective drawn
    noun,               \* the noun drawn
    number,             \* the integer drawn by random.randint
    username,           \* result of generate_funny_username
    template,           \* content of spotify_prompt.txt (lines 182-183)
    top_tracks,         \* first argument of build_prompt
    recent_tracks,      \* second argument of build_prompt
    prompt,             \* result of build_prompt
    sp,                 \* the global sp (line 34): None or a Spotify client
    pc,                 \* where each worker is in the request it handles
    req,                \* the request each worker handles: its session and route
    idx,                \* the call of the route's try block each worker is at
    steps,              \* the calls each worker has made, with how each ended
    calls,              \* the provider calls of each worker, with the client used
    resp                \* the response of each worker

trackVars == <<items, tracks_data, unique_tracks>>
parseVars == <<chunks, response, description, image_prompt>>
userVars == <<character_description, adj, noun, number, username>>
promptVars == <<template, top_tracks, recent_tracks, prompt>>
reqVars == <<sp, pc, req, idx, steps, calls, resp>>
vars == <<stage, trackVars, parseVars, userVars, promptVars, reqVars>>

otherThanTracks == <<parseVars, userVars, promptVars, reqVars>>
otherThanParse == <<trackVars, userVars, promptVars, reqVars>>
otherThanUser == <<trackVars, parseVars, promptVars, reqVars>>
otherThanPrompt == <<trackVars, parseVars, userVars, reqVars>>
otherThanReq == <<stage, trackVars, parseVars, userVars, promptVars>>

Min(a, b) == IF a <= b THEN a ELSE b

(***************************************************************************)
(* Track normalisers (lines 109-157).                                      *)
(*                                                                         *)
(* A raw entry is [id, played_at]: the identifier of the track and the     *)
(* timestamp of the play event.  The other fields of track_info (name,     *)
(* artists, album, popularity, ...) are copied from the same entry as the  *)
(* id and follow it.                                                       *)
(***************************************************************************)
MaxIds == 11            \* distinct track ids the provider may return
MaxDups == 2            \* repeated plays the provider may return
RecentCap == 10         \* line 155: len(unique_tracks) >= 10
TopLimit == 10          \* line 112: limit=10 asked of the provider

TrackIdsOf(its) == {its[k].id : k \in 1..Len(its)}

\* lines 114-128: one track_info per entry of top_tracks['items']
get_top_tracks_data_truncating(its) ==
    [k \in 1..Min(TopLimit, Len(its)) |-> [id |-> its[k].id]]

get_top_tracks_data(its) ==
    [k \in 1..Len(its) |-> [id |-> its[k].id]]

\* lines 136-156: the loop over recent_tracks['items'], at entry k
RECURSIVE RecentLoop(_, _, _, _)
RecentLoop(its, k, seen_tracks, unique) ==
    IF k > Len(its) THEN unique
    ELSE IF its[k].id \notin seen_tracks
         THEN LET u == Append(unique, [id |-> its[k].id, played_at |-> its[k].played_at])
              IN  IF Len(u) >= RecentCap THEN u
                  ELSE RecentLoop(its, k + 1, seen_tracks \cup {its[k].id}, u)
         ELSE RecentLoop(its, k + 1, seen_tracks, unique)

\* the same loop with the test of line 155 taken one record late
RECURSIVE RecentLoopLate(_, _, _, _)
RecentLoopLate(its, k, seen_tracks, unique) ==
    IF k > Len(its) THEN unique
    ELSE IF its[k].id \notin seen_tracks
         THEN LET u == Append(unique, [id |-> its[k].id, played_at |-> its[k].played_at])
              IN  IF Len(u) > RecentCap THEN u
                  ELSE RecentLoopLate(its, k + 1, seen_tracks \cup {its[k].id}, u)
         ELSE RecentLoopLate(its, k + 1, seen_tracks, unique)

get_recent_tracks_data_late(its) == RecentLoopLate(its, 1, {}, <<>>)

\* lines 134-157
get_recent_tracks_data(its) == RecentLoop(its, 1, {}, <<>>)

TracksInit ==
    /\ items = <<>>
    /\ tracks_data = <<>>
    /\ unique_tracks = <<>>

\* The provider adds one entry to its reply.  Track ids are opaque, so they
\* are numbered in order of first appearance; the play events carry distinct
\* timestamps.
ProviderReturns(id) ==
    /\ stage = "input"
    /\ id <= Cardinality(TrackIdsOf(items)) + 1
    /\ \/ id \notin TrackIdsOf(items)
       \/ Len(items) - Cardinality(TrackIdsOf(items)) < MaxDups
    /\ items' = Append(items, [id |-> id, played_at |-> Len(items) + 1])
    /\ UNCHANGED <<stage, tracks_data, unique_tracks>>
    /\ UNCHANGED otherThanTracks

GetTopTracksData ==
    /\ stage = "input"
    /\ tracks_data' = get_top_tracks_data(items)
    /\ stage' = "top"
    /\ UNCHANGED <<items, unique_tracks>>
    /\ UNCHANGED otherThanTracks

GetRecentTracksData ==
    /\ stage = "input"
    /\ unique_tracks' = get_recent_tracks_data(items)
    /\ stage' = "recent"
    /\ UNCHANGED <<items, tracks_data>>
    /\ UNCHANGED otherThanTracks

(***************************************************************************)
(* Response parser (lines 170-179).                                        *)
(***************************************************************************)
UpperLetters == "ABCDEFGHIJKLMNOPQRSTUVWXYZ"
LowerLetters == "abcdefghijklmnopqrstuvwxyz"

\* str.lower() and re.IGNORECASE on one character
LowerMap ==
    [c \in {SubSeq(UpperLetters, i, i) : i \in 1..Len(UpperLetters)} |->
        LET i == CHOOSE j \in 1..Len(UpperLetters) : SubSeq(UpperLetters, j, j) = c
        IN  SubSeq(LowerLetters, i, i)]

lower_char(c) == IF c \in DOMAIN LowerMap THEN LowerMap[c] ELSE c

CharAt(s, i) == SubSeq(s, i, i)

\* \s of the regular expressions, and the characters str.strip() removes
IsSpace(c) == c \in {" ", "\n", "\t", "\r", "\f"}

\* number of consecutive whitespace characters of s from position p on
RECURSIVE WsRun(_, _)
WsRun(s, p) ==
    IF p <= Len(s) /\ IsSpace(CharAt(s, p)) THEN 1 + WsRun(s, p + 1) ELSE 0

\* str.strip()
strip(s) ==
    LET solid == {i \in 1..Len(s) : ~IsSpace(CharAt(s, i))}
    IN  IF solid = {} THEN ""
        ELSE SubSeq(s, CHOOSE i \in solid : \A j \in solid : i <= j,
                       CHOOSE i \in solid : \A j \in solid : i >= j)

DescMarker == "### DESCRIPTION"     \* line 173
ImageMarker == "### IMAGE"          \* lines 173, 174

\* the literal lit matches s at position i, letters compared as written
LitAtCaseSensitive(s, i, lit) ==
    /\ i >= 1
    /\ i + Len(lit) - 1 <= Len(s)
    /\ \A j \in 1..Len(lit) : CharAt(s, i + j - 1) = CharAt(lit, j)

\* the literal lit matches s at position i under re.IGNORECASE
LitAt(s, i, lit) ==
    /\ i >= 1
    /\ i + Len(lit) - 1 <= Len(s)
    /\ \A j \in 1..Len(lit) : lower_char(CharAt(s, i + j - 1)) = lower_char(CharAt(lit, j))

NoMatch == [matched |-> FALSE, group |-> "", marker |-> 0]

\* line 173, from position p just after a description marker: the ways
\* \s*(.+?)\s*### IMAGE can match.  k characters go to the first \s*, m >= 1
\* to the group, t to the second \s*, and the image marker follows.
DescTail(s, p, k, m) ==
    \E t \in 0..WsRun(s, p + k + m) : LitAt(s, p + k + m + t, ImageMarker)

DescWs(s, p) ==
    {k \in 0..WsRun(s, p) : \E m \in 1..(Len(s) - p - k + 1) : DescTail(s, p, k, m)}

\* the match the backtracking engine reports for a description marker that
\* ends just before p: the first \s* is greedy (largest k that leads to a
\* match), the group is lazy (then the smallest m)
DescMatchAt(s, p) ==
    LET K == DescWs(s, p)
        k == CHOOSE x \in K : \A y \in K : x >= y
        M == {x \in 1..(Len(s) - p - k + 1) : DescTail(s, p, k, x)}
        m == CHOOSE x \in M : \A y \in M : x <= y
    IN  [matched |-> TRUE,
         group |-> SubSeq(s, p + k, p + k + m - 1),
         marker |-> p + k + m + WsRun(s, p + k + m)]

\* the description search anchored at no marker: (.+?)\s*### IMAGE
desc_search_unanchored(s) ==
    LET S == {i \in 1..Len(s) : DescWs(s, i) # {}}
    IN  IF S = {} THEN NoMatch
        ELSE DescMatchAt(s, CHOOSE i \in S : \A j \in S : i <= j)

\* line 173: re.search reports the match at the leftmost position that has one
desc_search(s) ==
    LET S == {i \in 1..Len(s) : LitAt(s, i, DescMarker) /\ DescWs(s, i + Len(DescMarker)) # {}}
    IN  IF S = {} THEN NoMatch
        ELSE DescMatchAt(s, (CHOOSE i \in S : \A j \in S : i <= j) + Len(DescMarker))

\* line 174 at an image marker at i: \s* is greedy but must leave the group
\* (.+) one character; the group then runs to the end of the text (re.DOTALL)
ImageWs(s, p) == {k \in 0..WsRun(s, p) : p + k <= Len(s)}

ImageMatchAt(s, i) ==
    LET p == i + Len(ImageMarker)
        K == ImageWs(s, p)
        k == CHOOSE x \in K : \A y \in K : x >= y
    IN  [matched |-> TRUE, group |-> SubSeq(s, p + k, Len(s)), marker |-> i]

\* the image directive taken only after the marker that ends the description
image_search_after_description(s) ==
    LET d == desc_search(s)
    IN  IF d.matched /\ ImageWs(s, d.marker + Len(ImageMarker)) # {}
        THEN ImageMatchAt(s, d.marker)
        ELSE NoMatch

\* line 174
image_search(s) ==
    LET S == {i \in 1..Len(s) : LitAt(s, i, ImageMarker) /\ ImageWs(s, i + Len(ImageMarker)) # {}}
    IN  IF S = {} THEN NoMatch
        ELSE ImageMatchAt(s, CHOOSE i \in S : \A j \in S : i <= j)

\* lines 170-179
parse_ollama_response(text) ==
    LET desc_match == desc_search(text)
        image_match == image_search(text)
    IN  [description |-> IF desc_match.matched THEN strip(desc_match.group) ELSE "",
         image_prompt |-> IF image_match.matched THEN strip(image_match.group) ELSE ""]

RECURSIVE Join(_)
Join(cs) == IF cs = <<>> THEN "" ELSE Head(cs) \o Join(Tail(cs))

MaxChunks == 4          \* pieces of generator output
MaxD == 2               \* pieces of a description body
MaxI == 2               \* pieces of an image body

DescMarkers == {"### DESCRIPTION", "### Description"}
ImageMarkers == {"### IMAGE", "### image"}
Chunks == DescMarkers \cup ImageMarkers \cup {"a", " ", "\n", "#"}
BodyChunks == {" ", "\n", "#", "x\ny", "### image"}

SeqsUpTo(S, n) == UNION {[1..k -> S] : k \in 1..n}

ParseInit ==
    /\ chunks = <<>>
    /\ response = ""
    /\ description = ""
    /\ image_prompt = ""

\* the text generator writes one more piece of output
GeneratorWrites(c) ==
    /\ stage = "input"
    /\ Len(chunks) < MaxChunks
    /\ chunks' = Append(chunks, c)
    /\ UNCHANGED <<stage, response, description, image_prompt>>
    /\ UNCHANGED otherThanParse

ParseOllamaResponse ==
    /\ stage = "input"
    /\ LET text == Join(chunks)
           parsed == parse_ollama_response(text)
       IN  /\ response' = text
           /\ description' = parsed.description
           /\ image_prompt' = parsed.image_prompt
    /\ stage' = "parsed"
    /\ UNCHANGED chunks
    /\ UNCHANGED otherThanParse

\* outputs of the documented shape: a description marker, a body, an image
\* marker, a body
RoundTripInit ==
    /\ \E dm \in DescMarkers, im \in ImageMarkers :
       \E D \in SeqsUpTo(BodyChunks, MaxD), I \in SeqsUpTo(BodyChunks, MaxI) :
           chunks = <<dm>> \o D \o <<im>> \o I
    /\ response = ""
    /\ description = ""
    /\ image_prompt = ""


(***************************************************************************)
(* Username generator (lines 205-229).                                     *)
(***************************************************************************)
\* str.lower()
RECURSIVE str_lower(_)
str_lower(s) ==
    IF s = "" THEN ""
    ELSE IF Len(s) = 1 THEN lower_char(s)
    ELSE LET h == Len(s) \div 2
         IN  str_lower(SubSeq(s, 1, h)) \o str_lower(SubSeq(s, h + 1, Len(s)))

\* Python's "sub in s"
contains(s, sub) ==
    \E i \in 1..(Len(s) - Len(sub) + 1) : SubSeq(s, i, i + Len(sub) - 1) = sub

\* lines 207-214, in the order of the dictionary
genre_vocab == <<
    [genre |-> "pop", keywords |-> {"pop", "bubblegum"},
     adjectives |-> {"pop", "shiny"}, nouns |-> {"princess", "idol"}],
    [genre |-> "emo", keywords |-> {"emo", "gloomy"},
     adjectives |-> {"sad", "moody"}, nouns |-> {"ghost", "vamp"}],
    [genre |-> "grunge", keywords |-> {"grunge", "punk"},
     adjectives |-> {"gritty", "fuzzy"}, nouns |-> {"rat", "gremlin"}],
    [genre |-> "hyperpop", keywords |-> {"hyperpop"},
     adjectives |-> {"glitchy"}, nouns |-> {"bot", "sprite"}],
    [genre |-> "ethereal", keywords |-> {"dreamy"},
     adjectives |-> {"ethereal"}, nouns |-> {"angel"}],
    [genre |-> "darkwave", keywords |-> {"goth", "vampire"},
     adjectives |-> {"dark"}, nouns |-> {"demon", "fang"}] >>

fallback_adjectives == {"weird", "alt"}     \* line 215
fallback_nouns == {"bot", "icon"}           \* line 216

Fallback == [genre |-> "fallback", keywords |-> {},
             adjectives |-> fallback_adjectives, nouns |-> fallback_nouns]

\* lines 217-224: the for/else over genre_vocab.values(), from bucket g on,
\* with d the text the keywords are looked up in
RECURSIVE GenreLoop(_, _)
GenreLoop(d, g) ==
    IF g > Len(genre_vocab) THEN Fallback
    ELSE IF \E word \in genre_vocab[g].keywords : contains(d, word)
         THEN genre_vocab[g]
         ELSE GenreLoop(d, g + 1)

\* the lookup without line 206
select_vocab_as_written(desc) == GenreLoop(desc, 1)

\* lines 206, 217-224: the vocabulary adj and noun are drawn from
select_vocab(desc) == GenreLoop(str_lower(desc), 1)

DecimalDigits == "0123456789"

\* str() of a non-negative integer, as the f-string of line 225 formats it
RECURSIVE int_to_str(_)
int_to_str(n) ==
    IF n < 10 THEN CharAt(DecimalDigits, n + 1)
    ELSE int_to_str(n \div 10) \o CharAt(DecimalDigits, (n % 10) + 1)

MinUsernameLen == 12    \* line 227
MaxUsernameLen == 16    \* lines 227, 229
MaxRandomInt == 99      \* line 225: random.randint(0, 99)

\* lines 226-229 with the lower bound of line 227 exclusive
RECURSIVE OptionLoopStrict(_, _, _)
OptionLoopStrict(options, k, dflt) ==
    IF k > Len(options) THEN dflt
    ELSE IF MinUsernameLen < Len(options[k]) /\ Len(options[k]) <= MaxUsernameLen
         THEN options[k]
         ELSE OptionLoopStrict(options, k + 1, dflt)

compose_username_strict(a, n, r) ==
    OptionLoopStrict(<<a \o n, a \o "_" \o n, a \o n \o int_to_str(r)>>, 1,
                     SubSeq(a \o n, 1, Min(MaxUsernameLen, Len(a \o n))))

\* lines 226-229: the loop over options, at option k
RECURSIVE OptionLoop(_, _, _)
OptionLoop(options, k, dflt) ==
    IF k > Len(options) THEN dflt
    ELSE IF MinUsernameLen <= Len(options[k]) /\ Len(options[k]) <= MaxUsernameLen
         THEN options[k]
         ELSE OptionLoop(options, k + 1, dflt)

\* lines 225-229, for the adjective a, the noun n and the integer r drawn
compose_username(a, n, r) ==
    OptionLoop(<<a \o n, a \o "_" \o n, a \o n \o int_to_str(r)>>, 1,
               SubSeq(a \o n, 1, Min(MaxUsernameLen, Len(a \o n))))

MaxWords == 2           \* words of a character description

Words == {"GOTH", "pop", "hyper", "Emo", "dreamy", "punk", " "}

UserIdle ==
    /\ character_description = ""
    /\ adj = ""
    /\ noun = ""
    /\ number = 0
    /\ username = ""

UserInit ==
    /\ character_description \in {Join(ws) : ws \in SeqsUpTo(Words, MaxWords) \cup {<<>>}}
    /\ adj = ""
    /\ noun = ""
    /\ number = 0
    /\ username = ""

\* lines 205-229; random.choice and random.randint draw any member
GenerateFunnyUsername ==
    /\ stage = "input"
    /\ \E a \in select_vocab(character_description).adjectives,
          n \in select_vocab(character_description).nouns,
          r \in 0..MaxRandomInt :
           /\ adj' = a
           /\ noun' = n
           /\ number' = r
           /\ username' = compose_username(a, n, r)
    /\ stage' = "named"
    /\ UNCHANGED character_description
    /\ UNCHANGED otherThanUser

(***************************************************************************)
(* Prompt builder (lines 181-188).                                         *)
(*                                                                         *)
(* A track is [name, artists]: the two fields of a track record the        *)
(* builder reads.                                                          *)
(***************************************************************************)
TopToken == "{{TOP_TRACKS}}"            \* line 186
RecentToken == "{{RECENT_TRACKS}}"      \* line 187

\* sep.join(parts)
RECURSIVE str_join(_, _)
str_join(sep, parts) ==
    IF parts = <<>> THEN ""
    ELSE IF Len(parts) = 1 THEN parts[1]
    ELSE parts[1] \o sep \o str_join(sep, Tail(parts))

\* str.find(old) counted from 1: where old first occurs in s, 0 when nowhere
str_find(s, old) ==
    LET hits == {i \in 1..(Len(s) - Len(old) + 1) : SubSeq(s, i, i + Len(old) - 1) = old}
    IN  IF hits = {} THEN 0 ELSE CHOOSE i \in hits : \A j \in hits : i <= j

\* str.replace(old, new), old not empty: every occurrence of old, found left
\* to right without overlap, becomes new
RECURSIVE str_replace(_, _, _)
str_replace(s, old, new) ==
    LET i == str_find(s, old)
    IN  IF i = 0 THEN s
        ELSE SubSeq(s, 1, i - 1) \o new \o
             str_replace(SubSeq(s, i + Len(old), Len(s)), old, new)

\* lines 184, 185: the rendered list
render_tracks(tracks) ==
    str_join("\n", [k \in 1..Len(tracks) |->
                      "- '" \o tracks[k].name \o "' by " \o str_join(", ", tracks[k].artists)])

\* lines 184-188, for the template read at lines 182-183
build_prompt(tmpl, top, recent) ==
    LET top_str == render_tracks(top)
        recent_str == render_tracks(recent)
        replaced == str_replace(tmpl, TopToken, top_str)
    IN  str_replace(replaced, RecentToken, recent_str)

MaxTemplate == 4        \* pieces of the template file
MaxTopTracks == 2       \* tracks in the top list
MaxRecentTracks == 1    \* tracks in the recent list

TemplatePieces == {"TOP:", "{{TOP_TRACKS}}", " RECENT:", "{{RECENT_TRACKS}}"}
TrackNames == {"A", "{{RECENT_TRACKS}}"}
ArtistLists == {<<"X">>, <<"X", "Y">>}
Tracks == [name : TrackNames, artists : ArtistLists]

PromptIdle ==
    /\ template = ""
    /\ top_tracks = <<>>
    /\ recent_tracks = <<>>
    /\ prompt = ""

PromptInit ==
    /\ template \in {Join(ps) : ps \in SeqsUpTo(TemplatePieces, MaxTemplate) \cup {<<>>}}
    /\ top_tracks \in SeqsUpTo(Tracks, MaxTopTracks) \cup {<<>>}
    /\ recent_tracks \in SeqsUpTo(Tracks, MaxRecentTracks) \cup {<<>>}
    /\ prompt = ""

BuildPrompt ==
    /\ stage = "input"
    /\ prompt' = build_prompt(template, top_tracks, recent_tracks)
    /\ stage' = "built"
    /\ UNCHANGED <<template, top_tracks, recent_tracks>>
    /\ UNCHANGED otherThanPrompt

(***************************************************************************)
(* Request handling: before_request (lines 33-74) and the routes '/'       *)
(* (77-90), '/character' (232-254) and '/recent-tracks' (256-264).         *)
(*                                                                         *)
(* The Flask server runs each request in its own worker thread.  sp is a   *)
(* module-level variable; the session belongs to the request.  Each read   *)
(* or write of sp is one step of a worker, so that the steps of two        *)
(* requests interleave as the threads do.  A Spotify client is identified  *)
(* by the session whose token it was built from.                           *)
(***************************************************************************)
Workers == {"w1", "w2"}
Authorized == {"s1", "s2"}              \* sessions that hold a cached token
Sessions == Authorized \cup {"anon"}    \* "anon" holds none
Routes == {"home", "character", "recent-tracks"}

None == "None"

\* line 68: the token cached in the session of the request
get_cached_token(s) == IF s \in Authorized THEN s ELSE None

\* the calls of each handler's try block, in order: lines 82-83, 237-244, 261
Plan(route) ==
    CASE route = "home" -> <<"get_top_tracks_data", "get_recent_tracks_data">>
      [] route = "character" ->
           <<"get_top_tracks_data", "get_recent_tracks_data", "build_prompt",
             "call_ollama", "parse_ollama_response", "format_image_prompt",
             "generate_character_image", "generate_funny_username">>
      [] route = "recent-tracks" -> <<"get_recent_tracks_data">>

\* the calls that go to Spotify through sp (lines 112, 133)
Fetches == {"get_top_tracks_data", "get_recent_tracks_data"}

\* the calls that can raise: the provider, the template file (line 182), the
\* generator process (line 167), the image pipeline and its file (197-201)
CanRaise == Fetches \cup {"build_prompt", "call_ollama", "generate_character_image"}

\* lines 84-88, 245-252, 262: the keys of the JSON of a success
SuccessFields(route) ==
    CASE route = "home" -> {"status", "top_tracks", "recent_tracks"}
      [] route = "character" ->
           {"ollama_prompt", "character_description", "image_prompt",
            "formatted_prompt", "image_url", "username"}
      [] route = "recent-tracks" -> {"recent_tracks"}

NoResponse == [status |-> 0, fields |-> {}]

\* lines 80, 235, 259
RedirectResponse == [status |-> 302, fields |-> {}]

\* an except clause that answers 200 and keeps the fields
HandlerResponseLenient(route, raised) ==
    IF raised THEN [status |-> 200, fields |-> SuccessFields(route) \cup {"error"}]
    ELSE [status |-> 200, fields |-> SuccessFields(route)]

\* lines 84-90, 245-254, 262-264: the response of a handler whose try block
\* ended
HandlerResponse(route, raised) ==
    IF raised THEN [status |-> 500, fields |-> {"error"}]
    ELSE [status |-> 200, fields |-> SuccessFields(route)]

NoRequest == [session |-> "", route |-> ""]

ReqInit ==
    /\ sp = None
    /\ pc = [w \in Workers |-> "idle"]
    /\ req = [w \in Workers |-> NoRequest]
    /\ idx = [w \in Workers |-> 0]
    /\ steps = [w \in Workers |-> <<>>]
    /\ calls = [w \in Workers |-> {}]
    /\ resp = [w \in Workers |-> NoResponse]

\* a request of session s for route r reaches worker w
StartRequest(w, s, r) ==
    /\ pc[w] = "idle"
    /\ pc' = [pc EXCEPT ![w] = "before_request"]
    /\ req' = [req EXCEPT ![w] = [session |-> s, route |-> r]]
    /\ UNCHANGED <<sp, idx, steps, calls, resp>>
    /\ UNCHANGED otherThanReq

\* lines 56-74.  The cache handler reads the session of the request in
\* progress; the one write to shared state is that of sp.
BeforeRequest(w) ==
    /\ pc[w] = "before_request"
    /\ sp' = get_cached_token(req[w].session)
    /\ pc' = [pc EXCEPT ![w] = "check"]
    /\ UNCHANGED <<req, idx, steps, calls, resp>>
    /\ UNCHANGED otherThanReq

\* lines 79-80, 234-235, 258-259: if not sp: return redirect(...)
RouteCheck(w) ==
    /\ pc[w] = "check"
    /\ IF sp = None
       THEN /\ resp' = [resp EXCEPT ![w] = RedirectResponse]
            /\ pc' = [pc EXCEPT ![w] = "done"]
            /\ UNCHANGED idx
       ELSE /\ pc' = [pc EXCEPT ![w] = "step"]
            /\ idx' = [idx EXCEPT ![w] = 1]
            /\ UNCHANGED resp
    /\ UNCHANGED <<sp, req, steps, calls>>
    /\ UNCHANGED otherThanReq

\* the call in progress raises: control goes to the except clause
Raise(w, log) ==
    /\ steps' = [steps EXCEPT ![w] = log]
    /\ resp' = [resp EXCEPT ![w] = HandlerResponse(req[w].route, TRUE)]
    /\ pc' = [pc EXCEPT ![w] = "done"]
    /\ UNCHANGED idx

\* the call in progress returns: control goes to the next call of the plan
Return(w, log) ==
    /\ steps' = [steps EXCEPT ![w] = log]
    /\ idx' = [idx EXCEPT ![w] = @ + 1]
    /\ pc' = [pc EXCEPT ![w] = "step"]
    /\ UNCHANGED resp

Started(w, name) == Append(steps[w], [name |-> name, result |-> "running"])
Ended(w, result) == [steps[w] EXCEPT ![Len(steps[w])].result = result]

\* lines 110-111, 131-132: if not sp: raise Exception(...)
FetchGuard(w) ==
    /\ pc[w] = "step"
    /\ idx[w] <= Len(Plan(req[w].route))
    /\ Plan(req[w].route)[idx[w]] \in Fetches
    /\ LET name == Plan(req[w].route)[idx[w]]
       IN  IF sp = None
           THEN Raise(w, Append(steps[w], [name |-> name, result |-> "raised"]))
           ELSE /\ steps' = [steps EXCEPT ![w] = Started(w, name)]
                /\ pc' = [pc EXCEPT ![w] = "call"]
                /\ UNCHANGED <<idx, resp>>
    /\ UNCHANGED <<sp, req, calls>>
    /\ UNCHANGED otherThanReq

\* lines 112-128, 133-157: sp is read again and the provider is called
\* through it; on None the attribute lookup raises; the provider answers or
\* fails
FetchCall(w, ok) ==
    /\ pc[w] = "call"
    /\ IF sp = None
       THEN /\ Raise(w, Ended(w, "raised"))
            /\ UNCHANGED calls
       ELSE /\ calls' = [calls EXCEPT ![w] =
                           @ \cup {[api |-> Plan(req[w].route)[idx[w]], client |-> sp]}]
            /\ IF ok THEN Return(w, Ended(w, "ok")) ELSE Raise(w, Ended(w, "raised"))
    /\ UNCHANGED <<sp, req>>
    /\ UNCHANGED otherThanReq

\* lines 239-244: a call of the plan that does not touch sp
LocalCall(w, ok) ==
    /\ pc[w] = "step"
    /\ idx[w] <= Len(Plan(req[w].route))
    /\ Plan(req[w].route)[idx[w]] \notin Fetches
    /\ ok \/ Plan(req[w].route)[idx[w]] \in CanRaise
    /\ LET name == Plan(req[w].route)[idx[w]]
       IN  IF ok THEN Return(w, Append(steps[w], [name |-> name, result |-> "ok"]))
           ELSE Raise(w, Append(steps[w], [name |-> name, result |-> "raised"]))
    /\ UNCHANGED <<sp, req, calls>>
    /\ UNCHANGED otherThanReq

\* lines 84-88, 245-252, 262: return jsonify({...})
Respond(w) ==
    /\ pc[w] = "step"
    /\ idx[w] > Len(Plan(req[w].route))
    /\ resp' = [resp EXCEPT ![w] = HandlerResponse(req[w].route, FALSE)]
    /\ pc' = [pc EXCEPT ![w] = "done"]
    /\ UNCHANGED <<sp, req, idx, steps, calls>>
    /\ UNCHANGED otherThanReq

\* the response is sent and the worker is free again
Finish(w) ==
    /\ pc[w] = "done"
    /\ pc' = [pc EXCEPT ![w] = "idle"]
    /\ req' = [req EXCEPT ![w] = NoRequest]
    /\ idx' = [idx EXCEPT ![w] = 0]
    /\ steps' = [steps EXCEPT ![w] = <<>>]
    /\ calls' = [calls EXCEPT ![w] = {}]
    /\ resp' = [resp EXCEPT ![w] = NoResponse]
    /\ UNCHANGED sp
    /\ UNCHANGED otherThanReq

(***************************************************************************)
(* Specifications: one per component, the other components at rest.        *)
(***************************************************************************)
TracksNext ==
    \/ \E id \in 1..MaxIds : ProviderReturns(id)
    \/ GetTopTracksData
    \/ GetRecentTracksData

TracksStart ==
    /\ stage = "input"
    /\ TracksInit /\ ParseInit /\ UserIdle /\ PromptIdle /\ ReqInit

SpecTracks == TracksStart /\ [][TracksNext]_vars

ParseNext ==
    \/ \E c \in Chunks : GeneratorWrites(c)
    \/ ParseOllamaResponse

ParseStart ==
    /\ stage = "input"
    /\ TracksInit /\ ParseInit /\ UserIdle /\ PromptIdle /\ ReqInit

SpecParse == ParseStart /\ [][ParseNext]_vars

RoundTripNext == ParseOllamaResponse

RoundTripStart ==
    /\ stage = "input"
    /\ TracksInit /\ RoundTripInit /\ UserIdle /\ PromptIdle /\ ReqInit

SpecRoundTrip == RoundTripStart /\ [][RoundTripNext]_vars

UserNext == GenerateFunnyUsername

UserStart ==
    /\ stage = "input"
    /\ TracksInit /\ ParseInit /\ UserInit /\ PromptIdle /\ ReqInit

SpecUser == UserStart /\ [][UserNext]_vars

PromptNext == BuildPrompt

PromptStart ==
    /\ stage = "input"
    /\ TracksInit /\ ParseInit /\ UserIdle /\ PromptInit /\ ReqInit

SpecPrompt == PromptStart /\ [][PromptNext]_vars

ReqNext ==
    \E w \in Workers :
        \/ \E s \in Sessions, r \in Routes : StartRequest(w, s, r)
        \/ BeforeRequest(w)
        \/ RouteCheck(w)
        \/ FetchGuard(w)
        \/ \E ok \in BOOLEAN : FetchCall(w, ok)
        \/ \E ok \in BOOLEAN : LocalCall(w, ok)
        \/ Respond(w)
        \/ Finish(w)

ReqStart ==
    /\ stage = "serving"
    /\ TracksInit /\ ParseInit /\ UserIdle /\ PromptIdle /\ ReqInit

SpecReq == ReqStart /\ [][ReqNext]_vars
(***************************************************************************)
(* Claims about the track normalisers.                                     *)
(***************************************************************************)
\* positions of items holding the first occurrence of their track id
FirstOccurrences(its) ==
    {k \in 1..Len(its) : \A j \in 1..(k - 1) : its[j].id # its[k].id}

\* the n-th smallest member of a set of positions
NthOf(S, n) == CHOOSE p \in S : Cardinality({q \in S : q <= p}) = n

\* C1: the recently-played result holds no track id twice, has at most 10
\* records and at most as many as the input, and is made of the first
\* occurrence of each of the first 10 distinct track ids, in input order.
C1_RecentDedup ==
    stage = "recent" =>
        LET F == FirstOccurrences(items)
            out == unique_tracks
        IN  /\ \A a, b \in 1..Len(out) : a # b => out[a].id # out[b].id
            /\ Len(out) <= 10
            /\ Len(out) <= Len(items)
            /\ Len(out) = Min(10, Cardinality(F))
            /\ \A n \in 1..Len(out) :
                   /\ out[n].id = items[NthOf(F, n)].id
                   /\ out[n].played_at = items[NthOf(F, n)].played_at

\* a reply with a repeated play among the first ten tracks and an eleventh
\* distinct track after them
C1_Witness ==
    /\ stage = "recent"
    /\ Len(unique_tracks) = 10
    /\ Cardinality(TrackIdsOf(items)) > 10
    /\ \E k \in 1..Len(items) : k \notin FirstOccurrences(items) /\ k < 10

\* C2 as stated: the top-tracks result has min(10, input length) records,
\* the leading input entries in input order.
C2_TopTruncatedToTen ==
    stage = "top" =>
        /\ Len(tracks_data) = Min(10, Len(items))
        /\ \A k \in 1..Len(tracks_data) : tracks_data[k].id = items[k].id

\* C2 amended: the top-tracks result has one record per input entry, in
\* input order; its length is min(10, input length) only for inputs of at
\* most 10 entries, the cap being the limit asked of the provider.
C2_TopOnePerEntry ==
    stage = "top" =>
        /\ Len(tracks_data) = Len(items)
        /\ \A k \in 1..Len(items) : tracks_data[k].id = items[k].id
        /\ Len(items) <= TopLimit => Len(tracks_data) = Min(10, Len(items))

C2_Witness ==
    /\ stage = "top"
    /\ Len(items) > TopLimit
    /\ Len(tracks_data) = Len(items)


(***************************************************************************)
(* Claims about the response parser.                                       *)
(***************************************************************************)
\* the positions of text where lit occurs, whatever the case of the letters
Occurrences(text, lit) ==
    LET low == str_lower(text)
        l == str_lower(lit)
    IN  {i \in 1..(Len(text) - Len(lit) + 1) : SubSeq(low, i, i + Len(lit) - 1) = l}

NoMarkerIn(text) ==
    /\ Occurrences(text, DescMarker) = {}
    /\ Occurrences(text, ImageMarker) = {}

IsWrittenAs(c, lit) == str_lower(c) = str_lower(lit)

\* C3: a text made of the description marker, a non-empty D, the image
\* marker and a non-empty I, D and I free of both markers and the markers in
\* any letter case, parses to (D stripped, I stripped), also when D or I
\* span several lines.
C3_RoundTrip ==
    stage = "parsed" =>
        \A m \in 3..(Len(chunks) - 1) :
            LET D == Join(SubSeq(chunks, 2, m - 1))
                I == Join(SubSeq(chunks, m + 1, Len(chunks)))
            IN  ( /\ IsWrittenAs(chunks[1], DescMarker)
                  /\ IsWrittenAs(chunks[m], ImageMarker)
                  /\ D # "" /\ I # ""
                  /\ NoMarkerIn(D) /\ NoMarkerIn(I) )
                => /\ description = strip(D)
                   /\ image_prompt = strip(I)

\* a lower-case image marker, a description of two lines with whitespace
\* around it
C3_Witness ==
    /\ stage = "parsed"
    /\ Len(chunks) >= 5
    /\ chunks[1] = "### Description"
    /\ chunks[2] = "\n"
    /\ chunks[3] = "x\ny"
    /\ chunks[4] = "### image"
    /\ NoMarkerIn(Join(SubSeq(chunks, 5, Len(chunks))))
    /\ description = "x\ny"
    /\ image_prompt # ""

\* C4: parsing returns on every text (ParseOllamaResponse has no failing
\* path and is taken from every text); without a description marker in the text the description
\* is empty, without an image marker the image directive is empty, and one
\* field may be filled while the other is empty.
C4_MissingMarker ==
    stage = "parsed" =>
        /\ Occurrences(response, DescMarker) = {} => description = ""
        /\ Occurrences(response, ImageMarker) = {} => image_prompt = ""

\* no description marker, and an image directive all the same
C4_Witness ==
    /\ stage = "parsed"
    /\ Occurrences(response, DescMarker) = {}
    /\ description = ""
    /\ image_prompt # ""

MarkersInOrder(text) ==
    \E i \in Occurrences(text, DescMarker), q \in Occurrences(text, ImageMarker) :
        q >= i + Len(DescMarker)

\* C5 as stated: without an image marker after a description marker both
\* fields are empty, and a non-empty image directive is the text after the
\* image marker that ends the description region.
C5_OnlyInOrder ==
    stage = "parsed" =>
        /\ ~MarkersInOrder(response) => (description = "" /\ image_prompt = "")
        /\ image_prompt # "" =>
              /\ desc_search(response).matched
              /\ image_prompt =
                   strip(SubSeq(response,
                                desc_search(response).marker + Len(ImageMarker),
                                Len(response)))

\* C5 amended: without an image marker after a description marker the
\* description is empty; the image directive is the trimmed text after the
\* first image marker of the text, whether or not a description marker
\* precedes it, and is empty when the text has no image marker.
C5_ImageFromFirstMarker ==
    stage = "parsed" =>
        /\ ~MarkersInOrder(response) => description = ""
        /\ LET Q == Occurrences(response, ImageMarker)
               q == CHOOSE x \in Q : \A y \in Q : x <= y
           IN  image_prompt =
                 IF Q = {} THEN ""
                 ELSE strip(SubSeq(response, q + Len(ImageMarker), Len(response)))

\* the image marker only before the description marker
C5_Witness ==
    /\ stage = "parsed"
    /\ Occurrences(response, DescMarker) # {}
    /\ Occurrences(response, ImageMarker) # {}
    /\ ~MarkersInOrder(response)
    /\ description = ""
    /\ image_prompt # ""

(***************************************************************************)
(* Claims about the username generator.                                    *)
(***************************************************************************)
FitsLength(s) == 12 <= Len(s) /\ Len(s) <= 16

IsPrefixOf(p, s) == Len(p) <= Len(s) /\ SubSeq(s, 1, Len(p)) = p

\* C6: the username is the first of adj+noun, adj+"_"+noun, adj+noun+integer
\* that is 12 to 16 characters long and, when none is, the first 16
\* characters of adj+noun; so it is 12 to 16 long or a prefix of adj+noun of
\* at most 16 characters.
C6_FirstFittingCandidate ==
    stage = "named" =>
        LET c1 == adj \o noun
            c2 == adj \o "_" \o noun
            c3 == adj \o noun \o int_to_str(number)
        IN  /\ FitsLength(c1) => username = c1
            /\ ~FitsLength(c1) /\ FitsLength(c2) => username = c2
            /\ ~FitsLength(c1) /\ ~FitsLength(c2) /\ FitsLength(c3) => username = c3
            /\ ~FitsLength(c1) /\ ~FitsLength(c2) /\ ~FitsLength(c3) =>
                  /\ IsPrefixOf(username, c1)
                  /\ Len(username) = Min(16, Len(c1))
            /\ \/ FitsLength(username)
               \/ IsPrefixOf(username, c1) /\ Len(username) <= 16

\* the second candidate is the first that fits, at exactly 12 characters
C6_Witness ==
    /\ stage = "named"
    /\ adj = "pop"
    /\ noun = "princess"
    /\ username = "pop_princess"

\* a keyword of bucket g occurs in the text, whatever the case of the letters
BucketMatches(text, g) ==
    \E kw \in genre_vocab[g].keywords : Occurrences(text, kw) # {}

\* C7: adjective and noun are both drawn from the first bucket, in the order
\* pop, emo, grunge, hyperpop, ethereal, darkwave, that has a keyword
\* occurring in the description whatever its letter case, and from the
\* fallback sets exactly when no bucket has one.
C7_FirstMatchingBucket ==
    stage = "named" =>
        LET matching == {g \in 1..Len(genre_vocab) : BucketMatches(character_description, g)}
            first == CHOOSE g \in matching : \A h \in matching : g <= h
        IN  /\ [g \in 1..6 |-> genre_vocab[g].genre] =
                   <<"pop", "emo", "grunge", "hyperpop", "ethereal", "darkwave">>
            /\ matching # {} =>
                   /\ adj \in genre_vocab[first].adjectives
                   /\ noun \in genre_vocab[first].nouns
            /\ matching = {} => adj \in {"weird", "alt"} /\ noun \in {"bot", "icon"}
            /\ adj \in {"weird", "alt"} => matching = {}

\* "GOTH" in capitals selects the darkwave bucket
C7_Witness ==
    /\ stage = "named"
    /\ Occurrences(character_description, "GOTH") # {}
    /\ contains(character_description, "GOTH")
    /\ adj = "dark"
    /\ noun \in {"demon", "fang"}

(***************************************************************************)
(* Claims about the prompt builder.                                        *)
(***************************************************************************)
\* the template with each token replaced by its list, the inserted text
\* left as it is
RECURSIVE SubstituteInTemplate(_, _, _)
SubstituteInTemplate(t, top_str, recent_str) ==
    LET a == str_find(t, TopToken)
        b == str_find(t, RecentToken)
    IN  IF a = 0 /\ b = 0 THEN t
        ELSE IF b = 0 \/ (a # 0 /\ a < b)
             THEN SubSeq(t, 1, a - 1) \o top_str \o
                  SubstituteInTemplate(SubSeq(t, a + Len(TopToken), Len(t)),
                                       top_str, recent_str)
             ELSE SubSeq(t, 1, b - 1) \o recent_str \o
                  SubstituteInTemplate(SubSeq(t, b + Len(RecentToken), Len(t)),
                                       top_str, recent_str)

\* C8: the prompt is the template with the {{TOP_TRACKS}} token replaced by
\* the rendered top list and the {{RECENT_TRACKS}} token by the rendered
\* recent list; text inserted for one token is not substituted again, also
\* when a track name holds a token, and a template without a token is left
\* unchanged for that token.
C8_SubstitutedOnce ==
    stage = "built" =>
        prompt = SubstituteInTemplate(template, render_tracks(top_tracks),
                                      render_tracks(recent_tracks))


(***************************************************************************)
(* Claims about the request handlers.                                      *)
(***************************************************************************)
CharacterOrder ==
    <<"get_top_tracks_data", "get_recent_tracks_data", "build_prompt", "call_ollama",
      "parse_ollama_response", "format_image_prompt", "generate_character_image",
      "generate_funny_username">>

CharacterFields ==
    {"ollama_prompt", "character_description", "image_prompt", "formatted_prompt",
     "image_url", "username"}

\* C9: in the handling of a /character request the calls are made in the
\* order fetch top, fetch recent, build prompt, generate text, parse, format,
\* generate image, generate username, each after all earlier ones returned;
\* after a call that raises no other call is made and none is made twice;
\* the response is then the one error response, status 500, with the error
\* key and no result field; a success response carries every result field.
C9_CharacterPipeline ==
    \A w \in Workers :
        req[w].route = "character" =>
            LET log == steps[w]
                raised == \E k \in 1..Len(log) : log[k].result = "raised"
            IN  /\ Len(log) <= Len(CharacterOrder)
                /\ \A k \in 1..Len(log) : log[k].name = CharacterOrder[k]
                /\ \A k \in 1..(Len(log) - 1) : log[k].result = "ok"
                /\ raised => pc[w] = "done" /\ resp[w] = [status |-> 500, fields |-> {"error"}]
                /\ resp[w].status = 500 => raised
                /\ resp[w].status = 200 =>
                       /\ Len(log) = Len(CharacterOrder)
                       /\ \A k \in 1..Len(log) : log[k].result = "ok"
                       /\ resp[w].fields = CharacterFields
                /\ pc[w] # "done" => resp[w] = NoResponse

\* the text generator fails after both fetches succeeded
C9_Witness ==
    \E w \in Workers :
        /\ req[w].route = "character"
        /\ pc[w] = "done"
        /\ Len(steps[w]) = 4
        /\ steps[w][4] = [name |-> "call_ollama", result |-> "raised"]
        /\ resp[w].status = 500

\* C10: whatever the interleaving of requests, every provider call of a
\* request goes through a client built from the token of the request's own
\* session, and a request of a session without a token is redirected and
\* makes no provider call.
C10_OwnClientOnly ==
    \A w \in Workers :
        /\ \A c \in calls[w] : c.client = get_cached_token(req[w].session)
        /\ (pc[w] \notin {"idle", "before_request"} /\ get_cached_token(req[w].session) = None) =>
               /\ calls[w] = {}
               /\ pc[w] \in {"check", "done"}
               /\ pc[w] = "done" => resp[w] = RedirectResponse
====
